---- MODULE Spec2Model ----
(***************************************************************************)
(* Model of skill-manager-treeshell: the dashboard document kept in        *)
(* skill_dashboard.json (dashboard_operations.py) and the two MCP servers' *)
(* run_conversation_shell (user_server.py, agent_server.py).               *)
(*                                                                         *)
(* Python strings that the code builds with f-strings are sequences of     *)
(* string pieces, concatenated with \o; a list is a sequence; the          *)
(* insertion-ordered dict favorite_skills is a sequence of                 *)
(* [cat, skills] entries in insertion order.                               *)
(***************************************************************************)
EXTENDS Integers, Sequences, FiniteSets, TLC

VARIABLES
    file,       \* the backing file DASHBOARD_FILE: absent, complete text, or partial text
    pc,         \* per caller: "idle", "loaded" (data mutated, save pending), "writing"
    local,      \* per caller: the in-memory `data` of its last call that loaded the file
    seen,       \* per caller: the file content that call's _load_dashboard read
    pend,       \* per caller: the value the call in progress returns after its save
    ret,        \* per caller: the last call, and what it returned or raised
    lastsave,   \* the caller whose write_text completed last (0: none yet)
    clock,      \* logical time: the number of datetime.now() readings so far
    calls,      \* handler calls started as separate steps (bounds SpecConc, SpecIO and SpecCut)
    shell,      \* per server: self.shell (0 is None, n > 0 the n-th shell constructed)
    built,      \* per server: how many SkillManagerTreeShell objects were constructed
    result,     \* per server: what the last run_conversation_shell call came back with
    inflight    \* user server: the calls suspended at `await self.shell.handle_command`

srvVars == <<shell, built, result, inflight>>
vars == <<file, pc, local, seen, pend, ret, lastsave, clock, calls, shell, built, result, inflight>>

(***************************************************************************)
(* Bounds of the model.                                                    *)
(***************************************************************************)
MaxClock == 2       \* datetime.now() readings allowed in Spec, SpecView and SpecStore
MaxCalls == 4       \* handler calls in a run of SpecConc, SpecIO or SpecCut
MaxTrack == 52      \* track calls per log in SpecTrack
MaxInflight == 2    \* calls of the user server suspended at once in SpecServer

Procs == {1, 2}
Skills == {"alpha", "foo"}
Cats == {"core", "general"}
Personas == {"ghost", "sage"}
TrackNames == {"alpha"}
Titles == {"Bug A"}
Bodies == {"desc"}
\* the tags argument, a string given as its characters' pieces
TagArgs == {<<>>, <<"urgent", ",", "ui">>}

(***************************************************************************)
(* Python built-ins the handlers use.                                      *)
(***************************************************************************)
\* x in lst
InSeq(x, s) == \E i \in 1..Len(s) : s[i] = x

\* lst.remove(x): drops the first occurrence of x
RECURSIVE RemoveFirst(_, _)
RemoveFirst(s, x) ==
    IF s = <<>> THEN <<>>
    ELSE IF Head(s) = x THEN Tail(s)
    ELSE <<Head(s)>> \o RemoveFirst(Tail(s), x)

\* lst[k:] for any integer k
SliceFrom(s, k) ==
    LET start == IF k < 0 THEN (IF Len(s) + k < 0 THEN 0 ELSE Len(s) + k)
                 ELSE (IF k > Len(s) THEN Len(s) ELSE k)
    IN  SubSeq(s, start + 1, Len(s))

Digits == <<"0", "1", "2", "3", "4", "5", "6", "7", "8", "9">>

\* str(n) for n >= 0, as used by an f-string
RECURSIVE IntToStr(_)
IntToStr(n) ==
    IF n < 10 THEN <<Digits[n + 1]>>
    ELSE IntToStr(n \div 10) \o <<Digits[(n % 10) + 1]>>

\* tags.split(","): the pieces between the commas, empty pieces included
RECURSIVE SplitComma(_, _)
SplitComma(s, cur) ==
    IF s = <<>> THEN <<cur>>
    ELSE IF Head(s) = "," THEN <<cur>> \o SplitComma(Tail(s), <<>>)
    ELSE SplitComma(Tail(s), cur \o <<Head(s)>>)

(***************************************************************************)
(* The store: _load_dashboard and _save_dashboard.                         *)
(***************************************************************************)
RecentCap == 50

\* faulty variant of EmptyDoc: the key issues is left out
EmptyDocNoIssues ==
    [favorite_skills |-> <<>>, favorite_personas |-> <<>>, recently_made |-> <<>>,
     recently_equipped |-> <<>>]

\* the document of _load_dashboard when no file exists
EmptyDoc ==
    [favorite_skills |-> <<>>, favorite_personas |-> <<>>, recently_made |-> <<>>,
     recently_equipped |-> <<>>, issues |-> <<>>]

\* the keys of that dict literal, in its order
KeyOrder ==
    <<"favorite_skills", "favorite_personas", "recently_made", "recently_equipped",
      "issues">>
TopKeys == {KeyOrder[i] : i \in 1..Len(KeyOrder)}

\* d.get(key, default)
Get(d, key, default) == IF key \in DOMAIN d THEN d[key] ELSE default

(***************************************************************************)
(* The JSON text of a document.  A JSON object is the sequence of its      *)
(* <<key, value>> members in the order they stand in the text, a JSON      *)
(* array the sequence of its elements; with indent=2 and the default       *)
(* separators the text is fixed by these.                                  *)
(***************************************************************************)
\* json.dumps of one entry of a recently_* log
EncodeEntry(r) == << <<"name", r.name>>, <<"time", r.time>> >>

\* json.dumps of one issue, the keys in the order of the dict literal
EncodeIssue(i) ==
    << <<"id", i.id>>, <<"title", i.title>>, <<"body", i.body>>, <<"tags", i.tags>>,
       <<"created", i.created>> >>

\* json.dumps of the value under a top-level key
EncodeValue(key, v) ==
    CASE key = "favorite_skills" -> [i \in 1..Len(v) |-> <<v[i].cat, v[i].skills>>]
      [] key = "favorite_personas" -> v
      [] key \in {"recently_made", "recently_equipped"} ->
            [i \in 1..Len(v) |-> EncodeEntry(v[i])]
      [] key = "issues" -> [i \in 1..Len(v) |-> EncodeIssue(v[i])]

\* the members of a dict in its insertion order, which for every document a
\* handler holds is the order of KeyOrder
RECURSIVE EncodeMembers(_, _)
EncodeMembers(data, keys) ==
    IF keys = <<>> THEN <<>>
    ELSE (IF Head(keys) \in DOMAIN data
          THEN << <<Head(keys), EncodeValue(Head(keys), data[Head(keys)])>> >>
          ELSE <<>>) \o EncodeMembers(data, Tail(keys))

\* json.dumps(data, indent=2)
JsonDumps(data) == EncodeMembers(data, KeyOrder)

\* the value json.loads gives a key of an object: that of its last member of that
\* key, looked for from member i backwards
RECURSIVE MemberFrom(_, _, _)
MemberFrom(obj, key, i) ==
    IF obj[i][1] = key THEN obj[i][2] ELSE MemberFrom(obj, key, i - 1)

Member(obj, key) == MemberFrom(obj, key, Len(obj))

DecodeEntry(j) == [name |-> Member(j, "name"), time |-> Member(j, "time")]

DecodeIssue(j) ==
    [id |-> Member(j, "id"), title |-> Member(j, "title"), body |-> Member(j, "body"),
     tags |-> Member(j, "tags"), created |-> Member(j, "created")]

DecodeValue(key, j) ==
    CASE key = "favorite_skills" ->
            [i \in 1..Len(j) |-> [cat |-> j[i][1], skills |-> j[i][2]]]
      [] key = "favorite_personas" -> j
      [] key \in {"recently_made", "recently_equipped"} ->
            [i \in 1..Len(j) |-> DecodeEntry(j[i])]
      [] key = "issues" -> [i \in 1..Len(j) |-> DecodeIssue(j[i])]

\* json.loads(text): the dict of the keys the text has
JsonLoads(text) ==
    [key \in {text[i][1] : i \in 1..Len(text)} |-> DecodeValue(key, Member(text, key))]

(***************************************************************************)
(* The backing file: absent, holding a whole JSON text, or holding a text  *)
(* cut short.                                                              *)
(***************************************************************************)
NoFile == [state |-> "absent", text |-> <<>>]
PartialFile == [state |-> "partial", text |-> <<>>]
\* write_text(json.dumps(data, indent=2)) as the whole content of the file
Dumps(data) == [state |-> "complete", text |-> JsonDumps(data)]

\* whether json.loads(read_text()) parses: a truncated text never does
Loadable(f) == f.state # "partial"

\* faulty variant of LoadDashboard: the exists() test is lost
LoadDashboardDefault(f) == EmptyDoc

\* _load_dashboard on a file it can parse
LoadDashboard(f) == IF f.state = "absent" THEN EmptyDoc ELSE JsonLoads(f.text)

(***************************************************************************)
(* The handlers' work between load and save: each gives the mutated data,  *)
(* whether the handler goes on to _save_dashboard, and what it returns.    *)
(***************************************************************************)
None == <<"None">>

HasCat(favs, category) == \E i \in 1..Len(favs) : favs[i].cat = category
CatIndex(favs, category) == CHOOSE i \in 1..Len(favs) : favs[i].cat = category

\* faulty variant of FavSkillsAdd: appends without the `not in` test
FavSkillsAddNoCheck(data, skill_name, category) ==
    LET favs0 == data.favorite_skills
        favs1 == IF HasCat(favs0, category) THEN favs0
                 ELSE Append(favs0, [cat |-> category, skills |-> <<>>])
        i == CatIndex(favs1, category)
    IN  [data |-> [data EXCEPT !.favorite_skills =
                        [favs1 EXCEPT ![i].skills = Append(@, skill_name)]],
         save |-> TRUE,
         ret |-> <<"Added '", skill_name, "' to favorites under '", category, "'">>]

FavSkillsAdd(data, skill_name, category) ==
    LET favs0 == data.favorite_skills
        favs1 == IF HasCat(favs0, category) THEN favs0
                 ELSE Append(favs0, [cat |-> category, skills |-> <<>>])
        i == CatIndex(favs1, category)
    IN  IF ~InSeq(skill_name, favs1[i].skills)
        THEN [data |-> [data EXCEPT !.favorite_skills =
                            [favs1 EXCEPT ![i].skills = Append(@, skill_name)]],
              save |-> TRUE,
              ret |-> <<"Added '", skill_name, "' to favorites under '", category, "'">>]
        ELSE [data |-> [data EXCEPT !.favorite_skills = favs1],
              save |-> FALSE,
              ret |-> <<"'", skill_name, "' already in favorites">>]

\* faulty variant of FavSkillsRemove: no return after the first match
FavSkillsRemoveAll(data, skill_name) ==
    LET favs == data.favorite_skills
    IN  IF \E i \in 1..Len(favs) : InSeq(skill_name, favs[i].skills)
        THEN [data |-> [data EXCEPT !.favorite_skills =
                            [i \in 1..Len(favs) |->
                                [favs[i] EXCEPT !.skills = RemoveFirst(@, skill_name)]]],
              save |-> TRUE,
              ret |-> <<"Removed '", skill_name, "' from favorites">>]
        ELSE [data |-> data, save |-> FALSE,
              ret |-> <<"'", skill_name, "' not found in favorites">>]

FavSkillsRemove(data, skill_name) ==
    LET favs == data.favorite_skills
        hits == {i \in 1..Len(favs) : InSeq(skill_name, favs[i].skills)}
    IN  IF hits # {}
        THEN LET first == CHOOSE i \in hits : \A j \in hits : i <= j
             IN  [data |-> [data EXCEPT !.favorite_skills =
                                [favs EXCEPT ![first].skills = RemoveFirst(@, skill_name)]],
                  save |-> TRUE,
                  ret |-> <<"Removed '", skill_name, "' from favorites">>]
        ELSE [data |-> data, save |-> FALSE,
              ret |-> <<"'", skill_name, "' not found in favorites">>]

FavPersonasAdd(data, persona_name) ==
    IF ~InSeq(persona_name, data.favorite_personas)
    THEN [data |-> [data EXCEPT !.favorite_personas = Append(@, persona_name)],
          save |-> TRUE,
          ret |-> <<"Added '", persona_name, "' to favorite personas">>]
    ELSE [data |-> data, save |-> FALSE,
          ret |-> <<"'", persona_name, "' already in favorites">>]

\* faulty variant of FavPersonasRemove: saves on the not-found path too
FavPersonasRemoveSaves(data, persona_name) ==
    IF InSeq(persona_name, data.favorite_personas)
    THEN [data |-> [data EXCEPT !.favorite_personas = RemoveFirst(@, persona_name)],
          save |-> TRUE,
          ret |-> <<"Removed '", persona_name, "' from favorites">>]
    ELSE [data |-> data, save |-> TRUE,
          ret |-> <<"'", persona_name, "' not found">>]

FavPersonasRemove(data, persona_name) ==
    IF InSeq(persona_name, data.favorite_personas)
    THEN [data |-> [data EXCEPT !.favorite_personas = RemoveFirst(@, persona_name)],
          save |-> TRUE,
          ret |-> <<"Removed '", persona_name, "' from favorites">>]
    ELSE [data |-> data, save |-> FALSE,
          ret |-> <<"'", persona_name, "' not found">>]

\* faulty variant of TrackMade: no [-50:] truncation
TrackMadeNoCap(data, skill_name, now) ==
    [data |-> [data EXCEPT !.recently_made =
                    Append(@, [name |-> skill_name, time |-> now])],
     save |-> TRUE, ret |-> None]

TrackMade(data, skill_name, now) ==
    [data |-> [data EXCEPT !.recently_made =
                    SliceFrom(Append(@, [name |-> skill_name, time |-> now]), -RecentCap)],
     save |-> TRUE, ret |-> None]

\* faulty variant of TrackEquipped: the truncated log is stored under recently_made
TrackEquippedIntoMade(data, name, now) ==
    [data |-> [data EXCEPT !.recently_made =
                    SliceFrom(Append(data.recently_equipped,
                                     [name |-> name, time |-> now]), -RecentCap)],
     save |-> TRUE, ret |-> None]

TrackEquipped(data, name, now) ==
    [data |-> [data EXCEPT !.recently_equipped =
                    SliceFrom(Append(@, [name |-> name, time |-> now]), -RecentCap)],
     save |-> TRUE, ret |-> None]

IssueId(n) == <<"issue_">> \o IntToStr(n)

\* faulty variant of CreateIssue: the id is the count before the append
CreateIssueIdFromZero(data, title, body, tags, now) ==
    LET issue == [id |-> IssueId(Len(data.issues)), title |-> title, body |-> body,
                  tags |-> IF tags # <<>> THEN SplitComma(tags, <<>>) ELSE <<>>,
                  created |-> now]
    IN  [data |-> [data EXCEPT !.issues = Append(@, issue)],
         save |-> TRUE,
         ret |-> <<"Created issue: ">> \o issue.id \o <<" - ", title>>]

CreateIssue(data, title, body, tags, now) ==
    LET issue == [id |-> IssueId(Len(data.issues) + 1), title |-> title, body |-> body,
                  tags |-> IF tags # <<>> THEN SplitComma(tags, <<>>) ELSE <<>>,
                  created |-> now]
    IN  [data |-> [data EXCEPT !.issues = Append(@, issue)],
         save |-> TRUE,
         ret |-> <<"Created issue: ">> \o issue.id \o <<" - ", title>>]

(***************************************************************************)
(* The handlers that only read: each gives the text it returns.            *)
(***************************************************************************)
\* sep.join(parts), each part a text given as its pieces
RECURSIVE Join(_, _)
Join(parts, sep) ==
    IF parts = <<>> THEN <<>>
    ELSE IF Len(parts) = 1 THEN parts[1]
    ELSE parts[1] \o <<sep>> \o Join(Tail(parts), sep)

\* the texts of a `result += ...` loop, one after the other
RECURSIVE Concat(_)
Concat(parts) == IF parts = <<>> THEN <<>> ELSE Head(parts) \o Concat(Tail(parts))

\* s[:k] for k >= 0
SliceTo(s, k) == SubSeq(s, 1, IF k > Len(s) THEN Len(s) ELSE k)

\* datetime.isoformat() of the reading t of the clock, as the text stored
IsoFormat(t) == IntToStr(t)

NoFavSkills == <<"No favorite skills yet. Use fav_skills_add to add some.">>

\* the lines of one category in the listing
CategoryLines(c) ==
    <<"\n[", c.cat, "]\n">>
        \o Concat([i \in 1..Len(c.skills) |-> <<"  - ", c.skills[i], "\n">>])

\* faulty variant of FavSkillsList: saves the document it loaded
FavSkillsListSaves(data) ==
    LET favs == Get(data, "favorite_skills", <<>>)
    IN  [data |-> data, save |-> TRUE,
         ret |-> IF favs = <<>> THEN NoFavSkills
                 ELSE <<"=== Favorite Skills ===\n">>
                        \o Concat([i \in 1..Len(favs) |-> CategoryLines(favs[i])])]

\* _dashboard_fav_skills_list
FavSkillsList(data) ==
    LET favs == Get(data, "favorite_skills", <<>>)
    IN  [data |-> data, save |-> FALSE,
         ret |-> IF favs = <<>> THEN NoFavSkills
                 ELSE <<"=== Favorite Skills ===\n">>
                        \o Concat([i \in 1..Len(favs) |-> CategoryLines(favs[i])])]

\* _dashboard_fav_personas_list
FavPersonasList(data) ==
    LET favs == Get(data, "favorite_personas", <<>>)
    IN  [data |-> data, save |-> FALSE,
         ret |-> IF favs = <<>> THEN <<"No favorite personas yet.">>
                 ELSE <<"=== Favorite Personas ===\n">>
                        \o Join([i \in 1..Len(favs) |-> <<"  - ", favs[i]>>], "\n")]

\* the line of one entry of a recently_* log
EntryLine(r) == <<"  - ", r.name, " (">> \o IsoFormat(r.time) \o <<")">>

NoneMade == <<"No recently made skills tracked.">>
NoneEquipped == <<"No recently equipped items tracked.">>

\* the listing of the entries recents of a log under its header
RecentListing(header, recents) ==
    <<header>> \o Join([i \in 1..Len(recents) |-> EntryLine(recents[i])], "\n")

\* _dashboard_recently_made
RecentlyMade(data, limit) ==
    LET recents == SliceFrom(Get(data, "recently_made", <<>>), -limit)
    IN  [data |-> data, save |-> FALSE,
         ret |-> IF recents = <<>> THEN NoneMade
                 ELSE RecentListing("=== Recently Made ===\n", recents)]

\* _dashboard_recently_equipped
RecentlyEquipped(data, limit) ==
    LET recents == SliceFrom(Get(data, "recently_equipped", <<>>), -limit)
    IN  [data |-> data, save |-> FALSE,
         ret |-> IF recents = <<>> THEN NoneEquipped
                 ELSE RecentListing("=== Recently Equipped ===\n", recents)]

\* the line of one issue in the list of all of them
IssueLine(i) ==
    <<"[">> \o i.id \o <<"] ", i.title, " (">> \o SliceTo(IsoFormat(i.created), 10)
        \o <<")">>

\* the detail view of one issue
IssueDetail(i) ==
    <<"=== ", i.title, " ===\nID: ">> \o i.id \o <<"\nTags: ">> \o Join(i.tags, ", ")
        \o <<"\nCreated: ">> \o IsoFormat(i.created) \o <<"\n\n", i.body>>

NoIssues == <<"No issues.">>
IssueNotFound(issue_id) == <<"Issue '">> \o issue_id \o <<"' not found">>

\* faulty variant of ReviewIssues: the id is not compared, the last issue is shown
ReviewIssuesLast(data, issue_id) ==
    LET issues == Get(data, "issues", <<>>)
        hits == 1..Len(issues)
    IN  [data |-> data, save |-> FALSE,
         ret |-> IF issues = <<>> THEN NoIssues
                 ELSE IF issue_id = <<>>
                 THEN <<"=== Issues ===\n">>
                        \o Join([i \in 1..Len(issues) |-> IssueLine(issues[i])], "\n")
                 ELSE IssueDetail(issues[CHOOSE i \in hits : \A j \in hits : j <= i])]

\* _dashboard_review_issues; issue_id is a text given as its pieces, "" being <<>>
ReviewIssues(data, issue_id) ==
    LET issues == Get(data, "issues", <<>>)
        hits == {i \in 1..Len(issues) : issues[i].id = issue_id}
    IN  [data |-> data, save |-> FALSE,
         ret |-> IF issues = <<>> THEN NoIssues
                 ELSE IF issue_id = <<>>
                 THEN <<"=== Issues ===\n">>
                        \o Join([i \in 1..Len(issues) |-> IssueLine(issues[i])], "\n")
                 ELSE IF hits # {}
                 THEN IssueDetail(issues[CHOOSE i \in hits : \A j \in hits : i <= j])
                 ELSE IssueNotFound(issue_id)]

(***************************************************************************)
(* A call of a handler: its name and arguments.                            *)
(***************************************************************************)
Op(name, args) == [name |-> name, args |-> args]
NoOp == Op("", <<>>)

FavSkillsAddOps == {Op("fav_skills_add", <<s, c>>) : s \in Skills, c \in Cats}
FavSkillsRemoveOps == {Op("fav_skills_remove", <<s>>) : s \in Skills}
FavPersonasAddOps == {Op("fav_personas_add", <<n>>) : n \in Personas}
FavPersonasRemoveOps == {Op("fav_personas_remove", <<n>>) : n \in Personas}
TrackMadeOps == {Op("track_made", <<n>>) : n \in TrackNames}
TrackEquippedOps == {Op("track_equipped", <<n>>) : n \in TrackNames}
CreateIssueOps ==
    {Op("create_issue", <<t, b, g>>) : t \in Titles, b \in Bodies, g \in TagArgs}

DefaultLimit == 10
\* the limit argument of the two recently_* listings
Limits == {0, 1, DefaultLimit}
\* the issue_id argument of review_issues: none, ids create_issue gives, another text
ReviewIds == {<<>>, IssueId(1), IssueId(2), <<"issue_x">>}

FavSkillsListOps == {Op("fav_skills_list", <<>>)}
FavPersonasListOps == {Op("fav_personas_list", <<>>)}
RecentlyMadeOps == {Op("recently_made", <<l>>) : l \in Limits}
RecentlyEquippedOps == {Op("recently_equipped", <<l>>) : l \in Limits}
ReviewIssuesOps == {Op("review_issues", <<i>>) : i \in ReviewIds}

\* the handlers that read datetime.now()
ReadsClock(op) == op.name \in {"track_made", "track_equipped", "create_issue"}

\* the handlers that only read the document
ReadOnly(op) ==
    op.name \in {"fav_skills_list", "fav_personas_list", "recently_made",
                 "recently_equipped", "review_issues"}

\* the handler's work on the loaded data; now is the reading of datetime.now()
Apply(op, data, now) ==
    CASE op.name = "fav_skills_add" -> FavSkillsAdd(data, op.args[1], op.args[2])
      [] op.name = "fav_skills_remove" -> FavSkillsRemove(data, op.args[1])
      [] op.name = "fav_personas_add" -> FavPersonasAdd(data, op.args[1])
      [] op.name = "fav_personas_remove" -> FavPersonasRemove(data, op.args[1])
      [] op.name = "track_made" -> TrackMade(data, op.args[1], now)
      [] op.name = "track_equipped" -> TrackEquipped(data, op.args[1], now)
      [] op.name = "create_issue" ->
            CreateIssue(data, op.args[1], op.args[2], op.args[3], now)
      [] op.name = "fav_skills_list" -> FavSkillsList(data)
      [] op.name = "fav_personas_list" -> FavPersonasList(data)
      [] op.name = "recently_made" -> RecentlyMade(data, op.args[1])
      [] op.name = "recently_equipped" -> RecentlyEquipped(data, op.args[1])
      [] op.name = "review_issues" -> ReviewIssues(data, op.args[1])

\* the field of the document a handler changes
Collection(op) ==
    CASE op.name \in {"fav_skills_add", "fav_skills_remove"} -> "favorite_skills"
      [] op.name \in {"fav_personas_add", "fav_personas_remove"} -> "favorite_personas"
      [] op.name = "track_made" -> "recently_made"
      [] op.name = "track_equipped" -> "recently_equipped"
      [] op.name = "create_issue" -> "issues"

Returned(op, value) == [op |-> op, kind |-> "return", value |-> value]
Raised(op, exc) == [op |-> op, kind |-> "raise", value |-> <<exc>>]
NoCall == [op |-> NoOp, kind |-> "none", value |-> <<>>]

(***************************************************************************)
(* A handler run as a whole, with no other caller between its load and its *)
(* save and no I/O failure.                                                *)
(***************************************************************************)
Handle(p, op) ==
    /\ pc[p] = "idle"
    /\ IF ~Loadable(file)
       THEN /\ ret' = [ret EXCEPT ![p] = Raised(op, "JSONDecodeError")]
            /\ UNCHANGED <<file, lastsave, clock>>
       ELSE \E r \in {Apply(op, LoadDashboard(file), clock + 1)} :
                /\ clock' = IF ReadsClock(op) THEN clock + 1 ELSE clock
                /\ ret' = [ret EXCEPT ![p] = Returned(op, r.ret)]
                /\ IF r.save
                   THEN /\ file' = Dumps(r.data)
                        /\ lastsave' = p
                   ELSE UNCHANGED <<file, lastsave>>
    /\ UNCHANGED <<pc, local, seen, pend, calls>>
    /\ UNCHANGED srvVars

\* faulty variant of Call: a text that does not parse is taken for the default document
CallRepairs(p, op) ==
    /\ pc[p] = "idle"
    /\ calls < MaxCalls
    /\ calls' = calls + 1
    /\ seen' = [seen EXCEPT ![p] = file]
    /\ \E r \in {Apply(op, IF Loadable(file) THEN LoadDashboard(file) ELSE EmptyDoc,
                        clock + 1)} :
            /\ local' = [local EXCEPT ![p] = r.data]
            /\ clock' = IF ReadsClock(op) THEN clock + 1 ELSE clock
            /\ IF r.save
               THEN /\ pc' = [pc EXCEPT ![p] = "loaded"]
                    /\ pend' = [pend EXCEPT ![p] = Returned(op, r.ret)]
                    /\ UNCHANGED ret
               ELSE /\ ret' = [ret EXCEPT ![p] = Returned(op, r.ret)]
                    /\ UNCHANGED <<pc, pend>>
    /\ UNCHANGED <<file, lastsave>>
    /\ UNCHANGED srvVars

(***************************************************************************)
(* The same handler as the steps other callers can come between: the load  *)
(* and in-memory work, then write_text's open (which truncates the file),  *)
(* then its write and close.                                               *)
(***************************************************************************)
Call(p, op) ==
    /\ pc[p] = "idle"
    /\ calls < MaxCalls
    /\ calls' = calls + 1
    /\ seen' = [seen EXCEPT ![p] = file]
    /\ IF ~Loadable(file)
       THEN /\ ret' = [ret EXCEPT ![p] = Raised(op, "JSONDecodeError")]
            /\ UNCHANGED <<pc, local, pend, clock>>
       ELSE \E r \in {Apply(op, LoadDashboard(file), clock + 1)} :
                /\ local' = [local EXCEPT ![p] = r.data]
                /\ clock' = IF ReadsClock(op) THEN clock + 1 ELSE clock
                /\ IF r.save
                   THEN /\ pc' = [pc EXCEPT ![p] = "loaded"]
                        /\ pend' = [pend EXCEPT ![p] = Returned(op, r.ret)]
                        /\ UNCHANGED ret
                   ELSE /\ ret' = [ret EXCEPT ![p] = Returned(op, r.ret)]
                        /\ UNCHANGED <<pc, pend>>
    /\ UNCHANGED <<file, lastsave>>
    /\ UNCHANGED srvVars

\* variant of SaveOpen that re-reads the file and carries over the other fields
SaveOpenMerging(p) ==
    /\ pc[p] = "loaded"
    /\ Loadable(file)
    /\ pc' = [pc EXCEPT ![p] = "writing"]
    /\ local' = [local EXCEPT ![p] =
                    [LoadDashboard(file) EXCEPT ![Collection(pend[p].op)] =
                        local[p][Collection(pend[p].op)]]]
    /\ file' = PartialFile
    /\ UNCHANGED <<seen, pend, ret, lastsave, clock, calls>>
    /\ UNCHANGED srvVars

\* mkdir(parents=True, exist_ok=True), then open(file, "w"): the file now exists, empty
SaveOpen(p) ==
    /\ pc[p] = "loaded"
    /\ pc' = [pc EXCEPT ![p] = "writing"]
    /\ file' = PartialFile
    /\ UNCHANGED <<local, seen, pend, ret, lastsave, clock, calls>>
    /\ UNCHANGED srvVars

\* write and close: the whole text is in the file, and the handler returns
SaveWrite(p) ==
    /\ pc[p] = "writing"
    /\ file.state = "partial"
    /\ pc' = [pc EXCEPT ![p] = "idle"]
    /\ file' = Dumps(local[p])
    /\ ret' = [ret EXCEPT ![p] = pend[p]]
    /\ lastsave' = p
    /\ UNCHANGED <<local, seen, pend, clock, calls>>
    /\ UNCHANGED srvVars

\* write and close after another caller wrote its text into the file this caller
\* had truncated: the text goes over the other one from offset 0, and what is left
\* is this text or, when the other text was longer, this text and the other's tail
SaveWriteOver(p) ==
    /\ pc[p] = "writing"
    /\ file.state = "complete"
    /\ pc' = [pc EXCEPT ![p] = "idle"]
    /\ file' \in {Dumps(local[p]), PartialFile}
    /\ ret' = [ret EXCEPT ![p] = pend[p]]
    /\ lastsave' = p
    /\ UNCHANGED <<local, seen, pend, clock, calls>>
    /\ UNCHANGED srvVars

\* mkdir or open raises OSError: nothing was written
SaveOpenFails(p) ==
    /\ pc[p] = "loaded"
    /\ pc' = [pc EXCEPT ![p] = "idle"]
    /\ ret' = [ret EXCEPT ![p] = Raised(pend[p].op, "OSError")]
    /\ UNCHANGED <<file, local, seen, pend, lastsave, clock, calls>>
    /\ UNCHANGED srvVars

\* the write raises OSError after open truncated the file
SaveWriteFails(p) ==
    /\ pc[p] = "writing"
    /\ pc' = [pc EXCEPT ![p] = "idle"]
    /\ file' = PartialFile
    /\ ret' = [ret EXCEPT ![p] = Raised(pend[p].op, "OSError")]
    /\ UNCHANGED <<local, seen, pend, lastsave, clock, calls>>
    /\ UNCHANGED srvVars

(***************************************************************************)
(* Initial state: no file, no call made, no shell.                         *)
(***************************************************************************)
Servers == {"user", "agent"}
Commands == {"nav", "jump equip", "equip.exec"}
\* str(e) of the exception raised
Errors == {"boom"}
\* what the collaborators do in one call: SkillManagerTreeShell(...) at initialisation,
\* then handle_command and (user server) render_response
InitOutcomes == {"ok", "init_raises"}
UserOutcomes == {"ok", "handle_raises", "render_raises"}
AgentOutcomes == {"ok", "handle_raises"}

\* What a call came back with: raised tells an exception left run_conversation_shell;
\* otherwise keys, success and error are the returned dict. command is the call's
\* argument, shell the shell that got the command (0: none), env what the
\* collaborators did.
NoResult ==
    [raised |-> FALSE, keys |-> {}, success |-> FALSE, error |-> <<>>, command |-> "",
     shell |-> 0, env |-> "none"]

\* both servers: the except branch of the initialisation
InitFailed(command, e) ==
    [raised |-> FALSE, keys |-> {"success", "error"}, success |-> FALSE,
     error |-> <<"Shell failed to initialize: ", e>>, command |-> command,
     shell |-> 0, env |-> "init_raises"]

\* faulty variant of UserResult: no except branch around the try block
UserResultUncaught(command, sh, outcome, e) ==
    IF outcome = "ok"
    THEN [raised |-> FALSE,
          keys |-> {"success", "command", "rendered_output", "raw_result"},
          success |-> TRUE, error |-> <<>>, command |-> command, shell |-> sh,
          env |-> outcome]
    ELSE [raised |-> TRUE, keys |-> {}, success |-> FALSE, error |-> <<e>>,
          command |-> command, shell |-> sh, env |-> outcome]

\* user server: the try block around handle_command and render_response
UserResult(command, sh, outcome, e) ==
    IF outcome = "ok"
    THEN [raised |-> FALSE,
          keys |-> {"success", "command", "rendered_output", "raw_result"},
          success |-> TRUE, error |-> <<>>, command |-> command, shell |-> sh,
          env |-> outcome]
    ELSE [raised |-> FALSE, keys |-> {"success", "error"}, success |-> FALSE,
          error |-> <<"Error executing command '", command, "': ", e>>,
          command |-> command, shell |-> sh, env |-> outcome]

\* agent server: the try block around handle_command
AgentResult(command, sh, outcome, e) ==
    IF outcome = "ok"
    THEN [raised |-> FALSE, keys |-> {"success", "response"}, success |-> TRUE,
          error |-> <<>>, command |-> command, shell |-> sh, env |-> outcome]
    ELSE [raised |-> FALSE, keys |-> {"success", "error"}, success |-> FALSE,
          error |-> <<e>>, command |-> command, shell |-> sh, env |-> outcome]

\* user server, run_conversation_shell up to its await: the lazy initialisation, then
\* the call of handle_command on the shell
UserStart(command) ==
    /\ Len(inflight) < MaxInflight
    /\ \E init \in InitOutcomes, e \in Errors :
        IF shell["user"] = 0 /\ init = "init_raises"
        THEN /\ result' = [result EXCEPT !["user"] = InitFailed(command, e)]
             /\ UNCHANGED <<shell, built, inflight>>
        ELSE /\ IF shell["user"] = 0
                THEN /\ built' = [built EXCEPT !["user"] = @ + 1]
                     /\ shell' = [shell EXCEPT !["user"] = built["user"] + 1]
                ELSE UNCHANGED <<shell, built>>
             /\ inflight' = Append(inflight, [command |-> command, shell |-> shell'["user"]])
             /\ UNCHANGED result
    /\ UNCHANGED <<file, pc, local, seen, pend, ret, lastsave, clock, calls>>

\* user server, run_conversation_shell from its await on: handle_command finishes or
\* raises, render_response renders or raises, and the dict is returned
UserFinish ==
    /\ \E i \in 1..Len(inflight), outcome \in UserOutcomes, e \in Errors :
        /\ result' = [result EXCEPT !["user"] =
                        UserResult(inflight[i].command, inflight[i].shell, outcome, e)]
        /\ inflight' = SubSeq(inflight, 1, i - 1) \o SubSeq(inflight, i + 1, Len(inflight))
    /\ UNCHANGED <<shell, built>>
    /\ UNCHANGED <<file, pc, local, seen, pend, ret, lastsave, clock, calls>>

\* faulty variant of RunAgent: the shell is dropped when handle_command raises
RunAgentDropsShell(command) ==
    /\ \E init \in InitOutcomes, outcome \in AgentOutcomes, e \in Errors :
        IF shell["agent"] = 0 /\ init = "init_raises"
        THEN /\ result' = [result EXCEPT !["agent"] = InitFailed(command, e)]
             /\ UNCHANGED <<shell, built>>
        ELSE /\ built' = IF shell["agent"] = 0 THEN [built EXCEPT !["agent"] = @ + 1]
                         ELSE built
             /\ shell' = IF outcome = "handle_raises" THEN [shell EXCEPT !["agent"] = 0]
                         ELSE [shell EXCEPT !["agent"] = built'["agent"]]
             /\ result' = [result EXCEPT !["agent"] =
                            AgentResult(command, built'["agent"], outcome, e)]
    /\ UNCHANGED inflight
    /\ UNCHANGED <<file, pc, local, seen, pend, ret, lastsave, clock, calls>>

\* agent server, run_conversation_shell: no await, the call runs as a whole
RunAgent(command) ==
    /\ \E init \in InitOutcomes, outcome \in AgentOutcomes, e \in Errors :
        IF shell["agent"] = 0 /\ init = "init_raises"
        THEN /\ result' = [result EXCEPT !["agent"] = InitFailed(command, e)]
             /\ UNCHANGED <<shell, built>>
        ELSE /\ IF shell["agent"] = 0
                THEN /\ built' = [built EXCEPT !["agent"] = @ + 1]
                     /\ shell' = [shell EXCEPT !["agent"] = built["agent"] + 1]
                ELSE UNCHANGED <<shell, built>>
             /\ result' = [result EXCEPT !["agent"] =
                            AgentResult(command, shell'["agent"], outcome, e)]
    /\ UNCHANGED inflight
    /\ UNCHANGED <<file, pc, local, seen, pend, ret, lastsave, clock, calls>>

Init ==
    /\ file = NoFile
    /\ pc = [p \in Procs |-> "idle"]
    /\ local = [p \in Procs |-> EmptyDoc]
    /\ seen = [p \in Procs |-> NoFile]
    /\ pend = [p \in Procs |-> NoCall]
    /\ ret = [p \in Procs |-> NoCall]
    /\ lastsave = 0
    /\ clock = 0
    /\ calls = 0
    /\ shell = [s \in Servers |-> 0]
    /\ built = [s \in Servers |-> 0]
    /\ result = [s \in Servers |-> NoResult]
    /\ inflight = <<>>

(***************************************************************************)
(* Spec: one caller, the handlers run one at a time.                       *)
(***************************************************************************)
Caller == 1

DashboardFavSkillsAdd == \E op \in FavSkillsAddOps : Handle(Caller, op)
DashboardFavSkillsRemove == \E op \in FavSkillsRemoveOps : Handle(Caller, op)
DashboardFavPersonasAdd == \E op \in FavPersonasAddOps : Handle(Caller, op)
DashboardFavPersonasRemove == \E op \in FavPersonasRemoveOps : Handle(Caller, op)
DoTrackMade == \E op \in TrackMadeOps : clock < MaxClock /\ Handle(Caller, op)
DoTrackEquipped == \E op \in TrackEquippedOps : clock < MaxClock /\ Handle(Caller, op)
DashboardCreateIssue == \E op \in CreateIssueOps : clock < MaxClock /\ Handle(Caller, op)

Next ==
    \/ DashboardFavSkillsAdd
    \/ DashboardFavSkillsRemove
    \/ DashboardFavPersonasAdd
    \/ DashboardFavPersonasRemove
    \/ DoTrackMade
    \/ DoTrackEquipped
    \/ DashboardCreateIssue

Spec == Init /\ [][Next]_vars

(***************************************************************************)
(* SpecConc: two callers whose loads and saves interleave.                 *)
(***************************************************************************)
ConcOps ==
    {Op("fav_skills_add", <<"foo", c>>) : c \in Cats}
        \cup {Op("fav_skills_remove", <<"foo">>), Op("fav_personas_add", <<"sage">>),
              Op("fav_personas_remove", <<"sage">>)}
        \cup TrackMadeOps
        \cup {Op("create_issue", <<"Bug A", "desc", <<>>>>)}

CallAny(p) == \E op \in ConcOps : Call(p, op)

NextConc ==
    \E p \in Procs : CallAny(p) \/ SaveOpen(p) \/ SaveWrite(p) \/ SaveWriteOver(p)

SpecConc == Init /\ [][NextConc]_vars

(***************************************************************************)
(* SpecView: one caller, the listings among the handlers that change the   *)
(* document.                                                               *)
(***************************************************************************)
ViewOps ==
    {Op("fav_skills_add", <<"alpha", c>>) : c \in Cats}
        \cup {Op("fav_skills_remove", <<"alpha">>), Op("fav_personas_add", <<"sage">>),
              Op("fav_personas_remove", <<"sage">>)}
        \cup TrackMadeOps \cup TrackEquippedOps \cup CreateIssueOps

Change == \E op \in ViewOps : (ReadsClock(op) => clock < MaxClock) /\ Handle(Caller, op)
DashboardFavSkillsList == \E op \in FavSkillsListOps : Handle(Caller, op)
DashboardFavPersonasList == \E op \in FavPersonasListOps : Handle(Caller, op)
DashboardRecentlyMade == \E op \in RecentlyMadeOps : Handle(Caller, op)
DashboardRecentlyEquipped == \E op \in RecentlyEquippedOps : Handle(Caller, op)
DashboardReviewIssues == \E op \in ReviewIssuesOps : Handle(Caller, op)

NextView ==
    \/ Change
    \/ DashboardFavSkillsList
    \/ DashboardFavPersonasList
    \/ DashboardRecentlyMade
    \/ DashboardRecentlyEquipped
    \/ DashboardReviewIssues

SpecView == Init /\ [][NextView]_vars

(***************************************************************************)
(* Properties of Spec.                                                     *)
(***************************************************************************)
\* the document a load would return now
Stored == LoadDashboard(file)
IsInfix(sub, s) ==
    \E i \in 0..(Len(s) - Len(sub)) : SubSeq(s, i + 1, i + Len(sub)) = sub
\* the step is a call of op by the one caller of Spec (every step of Spec is a call)
Called(op) == ret'[Caller].op = op

\* what a create_issue step does to the stored issues, and the stored ids
C3_CreateAppends ==
    \A op \in CreateIssueOps :
        Called(op) =>
            LET k == Len(Stored.issues)
                after == LoadDashboard(file').issues
            IN  /\ Len(after) = k + 1
                /\ SubSeq(after, 1, k) = Stored.issues
                /\ after[k + 1].id = <<"issue_">> \o IntToStr(k + 1)
                /\ after[k + 1].title = op.args[1]
                /\ ret'[Caller].kind = "return"
                /\ IsInfix(after[k + 1].id, ret'[Caller].value)
C3_IdsPositional ==
    /\ \A i \in 1..Len(Stored.issues) : Stored.issues[i].id = <<"issue_">> \o IntToStr(i)
    /\ \A i, j \in 1..Len(Stored.issues) :
            i # j => Stored.issues[i].id # Stored.issues[j].id
\* C3: for a document holding k issues, create issue appends exactly one issue whose
\* id is "issue_" + (k+1) and returns a confirmation containing that id; so the i-th
\* stored issue has id issue_i and no two stored issues share an id.
C3_IssueIds == [][C3_CreateAppends]_vars /\ []C3_IdsPositional
C3_Witness ==
    /\ Len(Stored.issues) = 2
    /\ Stored.issues[1].id = <<"issue_", "1">>
    /\ Stored.issues[2].id = <<"issue_", "2">>
    /\ ret[Caller].op.name = "create_issue"
    /\ ret[Caller].value = <<"Created issue: ", "issue_", "2", " - ", "Bug A">>

\* a step that repeats the add the caller made last
C5_SecondAddNoOp ==
    \A op \in FavSkillsAddOps \cup FavPersonasAddOps :
        (ret[Caller].op = op /\ Called(op)) =>
            /\ ret[Caller].kind = "return"
            /\ ret'[Caller] = Returned(op, <<"'", op.args[1], "' already in favorites">>)
            /\ file' = file
\* C5: adding the same favorite skill to the same category twice in a row leaves the
\* stored document as the first call left it, and both calls return normally, the
\* second with the already-present message; the same for a favorite persona.
C5_AddIdempotent == [][C5_SecondAddNoOp]_vars
C5_Witness ==
    /\ ret[Caller] = Returned(Op("fav_skills_add", <<"alpha", "core">>),
                              <<"'", "alpha", "' already in favorites">>)
    /\ file = Dumps([EmptyDoc EXCEPT !.favorite_skills =
                        <<[cat |-> "core", skills |-> <<"alpha">>]>>])

\* a fav_skills_remove step on a skill some category holds
C6_RemovesFromFirst ==
    \A op \in FavSkillsRemoveOps :
        LET s == op.args[1]
            before == Stored.favorite_skills
            after == LoadDashboard(file').favorite_skills
        IN  (Called(op) /\ \E i \in 1..Len(before) : InSeq(s, before[i].skills)) =>
                /\ Len(after) = Len(before)
                /\ \E i \in 1..Len(before) :
                    /\ InSeq(s, before[i].skills)
                    /\ \A j \in 1..(i - 1) : ~InSeq(s, before[j].skills)
                    /\ after[i].cat = before[i].cat
                    /\ ~InSeq(s, after[i].skills)
                    /\ Len(after[i].skills) = Len(before[i].skills) - 1
                    /\ \A x \in Skills \ {s} :
                            InSeq(x, after[i].skills) <=> InSeq(x, before[i].skills)
                    /\ \A j \in 1..Len(before) : j # i => after[j] = before[j]
\* C6: remove favorite skill(s), when s is in one or more categories, removes s from
\* exactly one category, the first in insertion order that holds s, and leaves every
\* other category, its copy of s included, unchanged.
C6_RemoveFirstCategory == [][C6_RemovesFromFirst]_vars
C6_Witness ==
    /\ ret[Caller] = Returned(Op("fav_skills_remove", <<"foo">>),
                              <<"Removed '", "foo", "' from favorites">>)
    /\ Stored.favorite_skills =
            <<[cat |-> "core", skills |-> <<"alpha">>],
              [cat |-> "general", skills |-> <<"foo">>]>>

\* a remove step on a persona or skill that is not stored
C9_AbsentRemoveNoOp ==
    /\ \A op \in FavPersonasRemoveOps :
            (Called(op) /\ ~InSeq(op.args[1], Stored.favorite_personas)) =>
                /\ ret'[Caller] = Returned(op, <<"'", op.args[1], "' not found">>)
                /\ file' = file
    /\ \A op \in FavSkillsRemoveOps :
            (Called(op) /\ \A i \in 1..Len(Stored.favorite_skills) :
                                ~InSeq(op.args[1], Stored.favorite_skills[i].skills)) =>
                /\ ret'[Caller] =
                        Returned(op, <<"'", op.args[1], "' not found in favorites">>)
                /\ file' = file
\* C9: removing a favorite persona or favorite skill that is not present returns a
\* not-found message and leaves the document and the backing store unchanged; on an
\* empty store remove favorite persona("ghost") returns "'ghost' not found" and no
\* file is created.
C9_RemoveAbsent == [][C9_AbsentRemoveNoOp]_vars
C9_Witness ==
    /\ ret[Caller] = Returned(Op("fav_personas_remove", <<"ghost">>),
                              <<"'", "ghost", "' not found">>)
    /\ file = NoFile

(***************************************************************************)
(* SpecIO: one caller whose save can fail with an I/O error.               *)
(***************************************************************************)
NextIO ==
    \/ CallAny(Caller)
    \/ SaveOpen(Caller)
    \/ SaveWrite(Caller)
    \/ SaveOpenFails(Caller)
    \/ SaveWriteFails(Caller)

SpecIO == Init /\ [][NextIO]_vars

(***************************************************************************)
(* Properties of SpecConc and SpecIO.                                      *)
(***************************************************************************)
\* caller p is back from a call that saved and returned
SavedAndReturned(p) == pc[p] = "idle" /\ ret[p].kind = "return" /\ ret[p] = pend[p]
NoDuplicates(s) == \A i, j \in 1..Len(s) : i # j => s[i] # s[j]

\* C1: when mutating operations A and B interleave as load(A), load(B), save(A),
\* save(B), the document persisted at the end is B's result on the document both
\* loaded: it has B's mutation and not A's, and neither call reports an error.
C1_LastWriterWins ==
    \A a, b \in Procs :
        ( /\ a # b
          /\ SavedAndReturned(a) /\ SavedAndReturned(b)
          /\ seen[a] = seen[b]
          /\ lastsave = b
          /\ file.state = "complete" ) =>
            LET base == LoadDashboard(seen[b])
                opA == ret[a].op
                opB == ret[b].op
            IN  /\ \E now \in 1..MaxCalls : Stored = Apply(opB, base, now).data
                /\ Stored[Collection(opB)] # base[Collection(opB)]
                /\ local[a][Collection(opA)] # base[Collection(opA)]
                /\ Collection(opA) # Collection(opB) =>
                        Stored[Collection(opA)] = base[Collection(opA)]
                /\ local[a] # local[b] => Stored # local[a]
C1_Witness ==
    /\ ret[1] = Returned(Op("fav_personas_add", <<"sage">>),
                         <<"Added '", "sage", "' to favorite personas">>)
    /\ ret[2] = Returned(Op("fav_skills_add", <<"foo", "core">>),
                         <<"Added '", "foo", "' to favorites under '", "core", "'">>)
    /\ SavedAndReturned(1) /\ SavedAndReturned(2)
    /\ seen[1] = NoFile /\ seen[2] = NoFile
    /\ lastsave = 2
    /\ file = Dumps([EmptyDoc EXCEPT !.favorite_skills =
                        <<[cat |-> "core", skills |-> <<"foo">>]>>])

\* C4: from an empty store, after any sequence and any interleaving of dashboard
\* operations at load/save granularity, no favorite category holds a skill name twice
\* and favorite_personas holds no persona name twice; a skill name may be in several
\* categories at once.
C4_NoDuplicateFavorites ==
    Loadable(file) =>
        /\ \A i \in 1..Len(Stored.favorite_skills) :
                NoDuplicates(Stored.favorite_skills[i].skills)
        /\ NoDuplicates([i \in 1..Len(Stored.favorite_skills) |->
                            Stored.favorite_skills[i].cat])
        /\ NoDuplicates(Stored.favorite_personas)
C4_Witness ==
    /\ \A p \in Procs :
            /\ SavedAndReturned(p)
            /\ ret[p].op = Op("fav_skills_add", <<"foo", "core">>)
            /\ seen[p] = Dumps([EmptyDoc EXCEPT !.favorite_skills =
                                    <<[cat |-> "general", skills |-> <<"foo">>]>>])
    /\ file = Dumps([EmptyDoc EXCEPT !.favorite_skills =
                        <<[cat |-> "general", skills |-> <<"foo">>],
                          [cat |-> "core", skills |-> <<"foo">>]>>])

\* C7: a load that runs at any point relative to a save, a concurrent caller's
\* included, reads the complete prior document or the complete new one, never an
\* empty or partially written file.
C7_LoadNeverSeesPartial ==
    \A p \in Procs :
        /\ seen[p].state # "partial"
        /\ ~(ret[p].kind = "raise" /\ ret[p].value = <<"JSONDecodeError">>)

\* C8: if save fails with an I/O error at any point of the write, the file afterwards
\* is the file as it was before that save began, and the error reaches the caller of
\* the dashboard operation.
C8_FailedSaveKeepsPrior ==
    (pc[Caller] = "idle" /\ ret[Caller].kind = "raise" /\ ret[Caller].value = <<"OSError">>)
        => file = seen[Caller]

(***************************************************************************)
(* SpecTrack: one caller tracks skill_1, skill_2, ... as made, then as     *)
(* equipped, one call at a time from the empty store.                      *)
(***************************************************************************)
NthName(i) == <<"skill_">> \o IntToStr(i)

TrackMadeRun ==
    /\ clock < MaxTrack
    /\ Stored.recently_equipped = <<>>
    /\ Handle(Caller, Op("track_made", <<NthName(clock + 1)>>))

TrackEquippedRun ==
    /\ clock < 2 * MaxTrack
    /\ Handle(Caller, Op("track_equipped", <<NthName(clock + 1)>>))

NextTrack ==
    \/ TrackMadeRun
    \/ TrackEquippedRun
    \/ DashboardRecentlyMade
    \/ DashboardRecentlyEquipped

SpecTrack == Init /\ [][NextTrack]_vars

\* C2: recently_made and recently_equipped each hold at most 50 entries in insertion
\* order with the newest entry last; after N >= 51 sequential track_made calls from
\* the empty store recently_made has exactly 50 entries and its first entry is the
\* (N-49)-th tracked name.
C2_BoundedLogs ==
    LET made == Stored.recently_made
        equipped == Stored.recently_equipped
        Ordered(log) == \A i, j \in 1..Len(log) : i < j => log[i].time < log[j].time
        NewestLast(log, name) ==
            ret[Caller].op.name = name =>
                /\ log # <<>>
                /\ log[Len(log)] = [name |-> ret[Caller].op.args[1], time |-> clock]
    IN  /\ Len(made) <= 50 /\ Len(equipped) <= 50
        /\ Ordered(made) /\ Ordered(equipped)
        /\ NewestLast(made, "track_made") /\ NewestLast(equipped, "track_equipped")
        /\ (equipped = <<>> /\ clock >= 51) =>
                /\ Len(made) = 50
                /\ made[1] = [name |-> NthName(clock - 49), time |-> clock - 49]
C2_Witness ==
    /\ clock = 52
    /\ Stored.recently_equipped = <<>>
    /\ Len(Stored.recently_made) = 50
    /\ Stored.recently_made[1].name = <<"skill_", "3">>
    /\ Stored.recently_made[50].name = <<"skill_", "5", "2">>

(***************************************************************************)
(* SpecServer: commands sent to the two servers.                           *)
(***************************************************************************)
NextServer ==
    \/ \E command \in Commands : UserStart(command)
    \/ UserFinish
    \/ \E command \in Commands : RunAgent(command)

SpecServer == Init /\ [][NextServer]_vars

Min(a, b) == IF a < b THEN a ELSE b
\* the last n entries of a log, in the log's order
LastN(log, n) == SubSeq(log, Len(log) - n + 1, Len(log))

\* the call the step of the one caller is
CalledOp == ret'[Caller].op

\* C11: list recently made / list recently equipped with limit L >= 0 returns the
\* last min(L, length) entries of its log in insertion order, most recent last, and
\* the none-tracked message when that is no entry (L = 0, or an empty log).
C11_LastLimitEntries ==
    [][ /\ CalledOp.name = "recently_made" =>
            LET log == Stored.recently_made
                n == Min(CalledOp.args[1], Len(log))
            IN  ret'[Caller].value =
                    IF n = 0 THEN NoneMade
                    ELSE RecentListing("=== Recently Made ===\n", LastN(log, n))
        /\ CalledOp.name = "recently_equipped" =>
            LET log == Stored.recently_equipped
                n == Min(CalledOp.args[1], Len(log))
            IN  ret'[Caller].value =
                    IF n = 0 THEN NoneEquipped
                    ELSE RecentListing("=== Recently Equipped ===\n", LastN(log, n))
      ]_vars

\* the section of category c in the listing: its [category] line, then a line a skill
SectionOf(c) ==
    <<"\n[", c.cat, "]\n">>
        \o Concat([k \in 1..Len(c.skills) |-> <<"  - ", c.skills[k], "\n">>])

\* C12: list favorite skills returns the no-favorites message whenever the document
\* holds no favorite skill in any category, also after every favorite added before
\* has been removed, and otherwise a listing by category that has each stored skill
\* under its category.
C12_NoFavoritesMessage ==
    [][ CalledOp.name = "fav_skills_list" =>
            LET favs == Stored.favorite_skills
            IN  IF \A i \in 1..Len(favs) : favs[i].skills = <<>>
                THEN ret'[Caller].value = NoFavSkills
                ELSE /\ Head(ret'[Caller].value) = "=== Favorite Skills ===\n"
                     /\ \A i \in 1..Len(favs) :
                            IsInfix(SectionOf(favs[i]), ret'[Caller].value)
      ]_vars

(***************************************************************************)
(* SpecStore: the handlers of Spec, and the store's save of what its load  *)
(* returned with nothing changed in between.                               *)
(***************************************************************************)
SaveLoadOp == Op("save_load", <<>>)

\* _save_dashboard(_load_dashboard())
SaveLoaded(p) ==
    /\ pc[p] = "idle"
    /\ IF ~Loadable(file)
       THEN /\ ret' = [ret EXCEPT ![p] = Raised(SaveLoadOp, "JSONDecodeError")]
            /\ UNCHANGED <<file, lastsave>>
       ELSE /\ file' = Dumps(LoadDashboard(file))
            /\ lastsave' = p
            /\ ret' = [ret EXCEPT ![p] = Returned(SaveLoadOp, None)]
    /\ UNCHANGED <<pc, local, seen, pend, clock, calls>>
    /\ UNCHANGED srvVars

NextStore == Next \/ SaveLoaded(Caller)

SpecStore == Init /\ [][NextStore]_vars

\* the text of the document with its five collections empty
EmptyText ==
    << <<"favorite_skills", <<>>>>, <<"favorite_personas", <<>>>>,
       <<"recently_made", <<>>>>, <<"recently_equipped", <<>>>>, <<"issues", <<>>>> >>

\* C13 as stated: save(load()) with nothing changed in between leaves the backing
\* store as it was, for every store state the handlers reach, the never-written
\* (absent file) state included.
C13_RoundTripNoOp == [][CalledOp = SaveLoadOp => file' = file]_vars

\* C13, for a file that exists and for none: save(load()) leaves the content of a file that exists as it was, text
\* for text; on the never-written store it creates the file, holding the document
\* with the five collections empty.
C13_RoundTripKeepsFile ==
    [][ CalledOp = SaveLoadOp =>
            /\ file.state = "complete" => file' = file
            /\ file.state = "absent" =>
                    file' = [state |-> "complete", text |-> EmptyText]
      ]_vars
C13_Witness ==
    /\ ret[Caller] = Returned(SaveLoadOp, None)
    /\ Stored.favorite_skills =
            <<[cat |-> "core", skills |-> <<"alpha">>], [cat |-> "general", skills |-> <<>>]>>
    /\ Len(Stored.issues) = 1 /\ Stored.issues[1].tags = <<<<"urgent">>, <<"ui">>>>
    /\ Len(Stored.recently_made) = 1

\* the keys of the members of a JSON object, in the order of the text
KeysOf(text) == [i \in 1..Len(text) |-> text[i][1]]

\* C14: every document load returns, and every document save writes, has the five
\* top-level keys favorite_skills, favorite_personas, recently_made,
\* recently_equipped and issues; with no file, load returns the document with all
\* five collections empty.
C14_FiveKeys ==
    /\ Loadable(file) => DOMAIN LoadDashboard(file) = TopKeys
    /\ file.state = "complete" => KeysOf(file.text) = KeyOrder
    /\ file.state = "absent" => \A key \in TopKeys : LoadDashboard(file)[key] = <<>>
    /\ \A p \in Procs : DOMAIN local[p] = TopKeys
C14_Witness ==
    /\ ret[Caller] = Returned(SaveLoadOp, None)
    /\ file = [state |-> "complete", text |-> EmptyText]
    /\ lastsave = Caller

(***************************************************************************)
(* SpecCut: one caller whose save can fail and leave the text cut short,   *)
(* and who calls the listings as well.                                     *)
(***************************************************************************)
ListOps ==
    FavSkillsListOps \cup FavPersonasListOps \cup RecentlyMadeOps
        \cup RecentlyEquippedOps \cup ReviewIssuesOps

CallList(p) == \E op \in ListOps : Call(p, op)

NextCut == NextIO \/ CallList(Caller)

SpecCut == Init /\ [][NextCut]_vars

\* the step is the start of a call of a handler
Calling == calls' = calls + 1

NoOpOutcome ==
    LET favs == Stored.favorite_skills
        arg == CalledOp.args
    IN  \/ /\ CalledOp.name = "fav_skills_add"
           /\ \E i \in 1..Len(favs) : favs[i].cat = arg[2] /\ InSeq(arg[1], favs[i].skills)
        \/ /\ CalledOp.name = "fav_skills_remove"
           /\ \A i \in 1..Len(favs) : ~InSeq(arg[1], favs[i].skills)
        \/ /\ CalledOp.name = "fav_personas_add"
           /\ InSeq(arg[1], Stored.favorite_personas)
        \/ /\ CalledOp.name = "fav_personas_remove"
           /\ ~InSeq(arg[1], Stored.favorite_personas)

\* C16: the handlers that only read (the four listings and review issues) and the
\* no-op outcomes of the mutating ones (add of a favorite already there, remove of an
\* absent one) never save: the file is left as it was, so that on a never-written
\* store it still does not exist after any sequence of them.
C16_OnlyWritesMakeFile ==
    /\ [][ (ReadOnly(CalledOp) \/ NoOpOutcome) =>
                /\ file' = file
                /\ lastsave' = lastsave
                /\ ret'[Caller].kind = "return"
         ]_vars
    /\ [](lastsave = 0 => file = NoFile)
C16_Witness ==
    /\ file = NoFile
    /\ lastsave = 0
    /\ ret[Caller] = Returned(Op("recently_equipped", <<DefaultLimit>>), NoneEquipped)

\* every top-level collection but the one under key is in after as it is in before
OnlyChanges(before, after, key) == \A k \in TopKeys \ {key} : after[k] = before[k]

\* C17: run one at a time, each mutating handler changes only its own collection and
\* leaves the other four as they were: favorite-skill add / remove only
\* favorite_skills, favorite-persona add / remove only favorite_personas, track_made
\* only recently_made, track_equipped only recently_equipped, create issue only
\* issues, to which it appends, every issue already there staying as it was.
C17_OwnCollectionOnly ==
    [][ \E before \in {Stored}, after \in {LoadDashboard(file')} :
        /\ CalledOp.name \in {"fav_skills_add", "fav_skills_remove"} =>
                OnlyChanges(before, after, "favorite_skills")
        /\ CalledOp.name \in {"fav_personas_add", "fav_personas_remove"} =>
                OnlyChanges(before, after, "favorite_personas")
        /\ CalledOp.name = "track_made" => OnlyChanges(before, after, "recently_made")
        /\ CalledOp.name = "track_equipped" =>
                OnlyChanges(before, after, "recently_equipped")
        /\ CalledOp.name = "create_issue" =>
                /\ OnlyChanges(before, after, "issues")
                /\ Len(after.issues) = Len(before.issues) + 1
                /\ SubSeq(after.issues, 1, Len(before.issues)) = before.issues
      ]_vars
C17_Witness ==
    /\ ret[Caller].op.name = "create_issue"
    /\ Len(Stored.issues) = 2
    /\ Stored.favorite_skills = <<[cat |-> "general", skills |-> <<"alpha">>]>>
    /\ Stored.favorite_personas = <<"sage">>

\* the indices of the stored issues of the id
IssuesOfId(issue_id) == {i \in 1..Len(Stored.issues) : Stored.issues[i].id = issue_id}

\* C18: run one at a time, once create issue(title, body, tags) has returned id X,
\* every later review issues(X) gives the detail view of that issue, with the title,
\* body and tags of that call, whatever other handlers ran in between; review issues
\* of an id no create returned gives a not-found (or no-issues) message.  As steps:
\* create stores under the id it returns the title, body and tags it was given; no
\* step changes or drops a stored issue; ids are not shared; and review issues(X)
\* shows the stored issue of id X, or the message when there is none.
C18_ReviewShowsCreated ==
    /\ [][ CalledOp.name = "create_issue" =>
                LET issues == LoadDashboard(file').issues
                    new == issues[Len(issues)]
                IN  /\ ret'[Caller].value =
                            <<"Created issue: ">> \o new.id \o <<" - ", CalledOp.args[1]>>
                    /\ new.title = CalledOp.args[1]
                    /\ new.body = CalledOp.args[2]
                    /\ new.tags = IF CalledOp.args[3] = <<>> THEN <<>>
                                  ELSE SplitComma(CalledOp.args[3], <<>>)
         ]_vars
    /\ [][ /\ Len(LoadDashboard(file').issues) >= Len(Stored.issues)
           /\ SubSeq(LoadDashboard(file').issues, 1, Len(Stored.issues)) = Stored.issues
         ]_vars
    /\ [](\A i, j \in 1..Len(Stored.issues) :
                Stored.issues[i].id = Stored.issues[j].id => i = j)
    /\ [][ (CalledOp.name = "review_issues" /\ CalledOp.args[1] # <<>>) =>
                LET X == CalledOp.args[1]
                IN  IF IssuesOfId(X) # {}
                    THEN \E i \in IssuesOfId(X) :
                            LET issue == Stored.issues[i]
                            IN  ret'[Caller].value =
                                    <<"=== ", issue.title, " ===\nID: ">> \o X
                                        \o <<"\nTags: ">> \o Join(issue.tags, ", ")
                                        \o <<"\nCreated: ">> \o IsoFormat(issue.created)
                                        \o <<"\n\n", issue.body>>
                    ELSE ret'[Caller].value \in {IssueNotFound(X), NoIssues}
         ]_vars
C18_Witness ==
    /\ ret[Caller] =
            Returned(Op("review_issues", <<IssueId(1)>>),
                     <<"=== ", "Bug A", " ===\nID: ", "issue_", "1", "\nTags: ",
                       "urgent", ", ", "ui", "\nCreated: ", "1", "\n\n", "desc">>)
    /\ Len(Stored.issues) = 2
    /\ Stored.issues[2].tags = <<>>
    /\ Stored.favorite_personas = <<"sage">>

(***************************************************************************)
(* Properties of SpecServer: the shell of a server.                        *)
(***************************************************************************)
\* C19: the shell of a server is initialised lazily and at most once with success.
\* While the initialisation fails the shell stays unset, the command returns
\* {success: false, error: "Shell failed to initialize: ..."} and is not dispatched,
\* and the next command tries the initialisation again; once an initialisation has
\* succeeded, that shell gets every later command and is never made anew, also after
\* a command has failed.
C19_ShellInitialisedOnce ==
    /\ [][ \A s \in Servers :
            /\ shell[s] # 0 => shell'[s] = shell[s] /\ built'[s] = built[s]
            /\ (result'[s] # result[s] /\ result'[s].env = "init_raises") =>
                    /\ shell[s] = 0 /\ shell'[s] = 0 /\ built'[s] = built[s]
                    /\ inflight' = inflight
                    /\ result'[s].shell = 0
                    /\ result'[s].keys = {"success", "error"}
                    /\ ~result'[s].success
                    /\ Head(result'[s].error) = "Shell failed to initialize: "
         ]_vars
    /\ [](\A s \in Servers :
            /\ built[s] <= 1
            /\ shell[s] = 0 <=> built[s] = 0
            /\ result[s].env \notin {"none", "init_raises"} =>
                    shell[s] # 0 /\ result[s].shell = shell[s])
    /\ [](\A i \in 1..Len(inflight) :
            shell["user"] # 0 /\ inflight[i].shell = shell["user"])
    /\ [](\A command \in Commands :
            /\ shell["agent"] = 0 =>
                    ENABLED (RunAgent(command) /\ shell'["agent"] # 0)
            /\ (shell["user"] = 0 /\ Len(inflight) < MaxInflight) =>
                    ENABLED (UserStart(command) /\ shell'["user"] # 0))
C19_Witness ==
    /\ result["agent"] = InitFailed("nav", "boom")
    /\ shell["agent"] = 0
    /\ result["user"] = UserResult("nav", 1, "handle_raises", "boom")
    /\ shell["user"] = 1 /\ built["user"] = 1
    /\ inflight = <<[command |-> "jump equip", shell |-> 1]>>

====
